---- MODULE Spec2Model ----
(***************************************************************************)
(* The type-driven value decoder of databend-go (src/dsn.go, second part): *)
(* newDataParser compiles a TypeDesc tree into a DataParser, and           *)
(* DataParser.Parse decodes one value from an io.RuneScanner.              *)
(*                                                                         *)
(* Text is a sequence of one-character strings.  The texts of this model   *)
(* are written over the alphabet                                           *)
(*     0-9  -  ,  :  '  \  space  [ ] ( ) { }  N U L a b t f               *)
(* and the library functions (strconv.ParseFloat, strconv.ParseBool,       *)
(* time.ParseInLocation) are modelled on that alphabet.                    *)
(***************************************************************************)
EXTENDS Integers, Sequences, FiniteSets, TLC

VARIABLES
    given,    \* the type descriptor as the caller built it
    desc,     \* the caller's *TypeDesc, handed to NewDataParser
    parsers,  \* the results of the NewDataParser calls made so far, in order
    out,      \* the outcome of the last DataParser.Parse call
    implInt   \* what this build yields for a float64 -> integer conversion
              \* whose operand the integer type cannot represent

vars == <<given, desc, parsers, out, implInt>>

----------------------------------------------------------------------------
(* Characters.                                                             *)

eof == "<eof>"

Digits == {"0", "1", "2", "3", "4", "5", "6", "7", "8", "9"}

DigitVal(c) ==
    CASE c = "0" -> 0 [] c = "1" -> 1 [] c = "2" -> 2 [] c = "3" -> 3
      [] c = "4" -> 4 [] c = "5" -> 5 [] c = "6" -> 6 [] c = "7" -> 7
      [] c = "8" -> 8 [] c = "9" -> 9

IsDigits(str) == Len(str) > 0 /\ \A i \in 1..Len(str) : str[i] \in Digits

RECURSIVE DecVal(_)
DecVal(str) ==
    IF str = <<>> THEN 0
    ELSE 10 * DecVal(SubSeq(str, 1, Len(str) - 1)) + DigitVal(str[Len(str)])

\* strings.Index(str, c) for a one-character c, 0-based, -1 when absent.
Index(str, c) ==
    IF \E i \in 1..Len(str) : str[i] = c
    THEN (CHOOSE i \in 1..Len(str) :
              str[i] = c /\ \A j \in 1..(i - 1) : str[j] # c) - 1
    ELSE -1

----------------------------------------------------------------------------
(* The character cursor: an io.RuneScanner over a text.  pos is the index  *)
(* of the next rune, can says that the last operation was a successful     *)
(* ReadRune, the only state in which UnreadRune moves the cursor           *)
(* (strings.Reader, bytes.Buffer and bufio.Reader all behave so: a second  *)
(* UnreadRune in a row returns an error, which the callers discard).       *)

NewReader(text) == [text |-> text, pos |-> 1, can |-> FALSE]

read(s) ==
    IF s.pos <= Len(s.text)
    THEN [r |-> s.text[s.pos], s |-> [s EXCEPT !.pos = @ + 1, !.can = TRUE]]
    ELSE [r |-> eof, s |-> [s EXCEPT !.can = FALSE]]

UnreadRune(s) ==
    IF s.can THEN [s EXCEPT !.pos = @ - 1, !.can = FALSE] ELSE s

----------------------------------------------------------------------------
(* Token readers.                                                          *)

RECURSIVE readNumberLoop(_, _)
readNumberLoop(s, builder) ==
    LET x == read(s) IN
    IF x.r = eof THEN [str |-> builder, s |-> x.s]
    ELSE IF x.r \in {",", "]", ")"}
         THEN [str |-> builder, s |-> UnreadRune(x.s)]
         ELSE readNumberLoop(x.s, Append(builder, x.r))

\* readNumber without the ']' case.
RECURSIVE readNumberLoop_NoBracket(_, _)
readNumberLoop_NoBracket(s, builder) ==
    LET x == read(s) IN
    IF x.r = eof THEN [str |-> builder, s |-> x.s]
    ELSE IF x.r \in {",", ")"}
         THEN [str |-> builder, s |-> UnreadRune(x.s)]
         ELSE readNumberLoop_NoBracket(x.s, Append(builder, x.r))

readNumber_NoBracket(s) == readNumberLoop_NoBracket(s, <<>>)

readNumber(s) == readNumberLoop(s, <<>>)

\* The escape table: the rune a backslash followed by r stands for.
readEscaped(s) ==
    LET x == read(s) IN
    IF x.r = eof THEN [err |-> TRUE, r |-> eof, s |-> x.s]
    ELSE [err |-> FALSE,
          r |-> CASE x.r = "b" -> "<BS>"
                  [] x.r = "f" -> "<FF>"
                  [] x.r = "t" -> "<TAB>"
                  [] x.r = "0" -> "<NUL>"
                  [] OTHER -> x.r,
          s |-> x.s]

RECURSIVE readUnquotedLoop(_, _, _, _)
readUnquotedLoop(s, length, builder, runesRead) ==
    IF ~(length = 0 \/ runesRead < length)
    THEN [err |-> FALSE, str |-> builder, n |-> runesRead, s |-> s]
    ELSE LET x == read(s) IN
         IF x.r = eof
         THEN [err |-> FALSE, str |-> builder, n |-> runesRead, s |-> x.s]
         ELSE IF x.r = "\\"
              THEN LET e == readEscaped(x.s) IN
                   IF e.err
                   THEN [err |-> TRUE, str |-> <<>>, n |-> runesRead, s |-> e.s]
                   ELSE readUnquotedLoop(e.s, length, Append(builder, e.r),
                                         runesRead + 1)
              ELSE readUnquotedLoop(x.s, length, Append(builder, x.r),
                                    runesRead + 1)

readUnquoted(s, length) ==
    LET l == readUnquotedLoop(s, length, <<>>, 0) IN
    IF l.err THEN [err |-> TRUE, str |-> <<>>, s |-> l.s]
    ELSE IF length # 0 /\ l.n # length
         THEN [err |-> TRUE, str |-> <<>>, s |-> l.s]
         ELSE [err |-> FALSE, str |-> l.str, s |-> l.s]

readString(s, length, unquote) ==
    LET q1 == read(s)
        s1 == IF unquote THEN q1.s ELSE s
    IN
    IF unquote /\ q1.r # "'" THEN [err |-> TRUE, str |-> <<>>, s |-> q1.s]
    ELSE LET u == readUnquoted(s1, length) IN
         IF u.err THEN [err |-> TRUE, str |-> <<>>, s |-> u.s]
         ELSE LET q2 == read(u.s) IN
              IF unquote /\ q2.r # "'"
              THEN [err |-> TRUE, str |-> <<>>, s |-> q2.s]
              ELSE [err |-> FALSE, str |-> u.str,
                    s |-> IF unquote THEN q2.s ELSE u.s]

\* n calls of UnreadRune in a row.
RECURSIVE UnreadRunes(_, _)
UnreadRunes(s, n) == IF n = 0 THEN s ELSE UnreadRunes(UnreadRune(s), n - 1)

peakNull(s) ==
    LET r1 == read(s) IN
    IF r1.r # "N" THEN [ok |-> FALSE, s |-> UnreadRunes(r1.s, 1)]
    ELSE LET r2 == read(r1.s) IN
    IF r2.r # "U" THEN [ok |-> FALSE, s |-> UnreadRunes(r2.s, 2)]
    ELSE LET r3 == read(r2.s) IN
    IF r3.r # "L" THEN [ok |-> FALSE, s |-> UnreadRunes(r3.s, 3)]
    ELSE LET r4 == read(r3.s) IN
    IF r4.r # "L" THEN [ok |-> FALSE, s |-> UnreadRunes(r4.s, 4)]
    ELSE LET r5 == read(r4.s) IN
    IF r5.r # eof THEN [ok |-> FALSE, s |-> UnreadRunes(r5.s, 5)]
    ELSE [ok |-> TRUE, s |-> r5.s]

----------------------------------------------------------------------------
(* Decoded values (driver.Value) and the outcome of a Parse call.          *)
(* st is "ok" (value, nil), "err" (a non-nil error), "panic" (a runtime    *)
(* panic unwinds the call) or "hang" (the call never returns).  log lists  *)
(* the nullableParser.Parse calls made during the call, in order.          *)

Nil == [k |-> "nil", v |-> 0]
Value(kind, v) == [k |-> kind, v |-> v]
IsNil(v) == v.k = "nil"

Ok(v, s, log) == [st |-> "ok", v |-> v, s |-> s, log |-> log]
Err(s, log) == [st |-> "err", v |-> Nil, s |-> s, log |-> log]
Panic(s, log) == [st |-> "panic", v |-> Nil, s |-> s, log |-> log]
Hang(s, log) == [st |-> "hang", v |-> Nil, s |-> s, log |-> log]

----------------------------------------------------------------------------
(* Library conversions.                                                    *)

Pow2(n) == 2 ^ n

Abs(n) == IF n < 0 THEN -n ELSE n

\* The value of a run of digits, negated: the most negative int32 has no
\* positive counterpart.
RECURSIVE NegDecVal(_)
NegDecVal(str) ==
    IF str = <<>> THEN 0
    ELSE 10 * NegDecVal(SubSeq(str, 1, Len(str) - 1)) - DigitVal(str[Len(str)])

\* The unit in the last place of a float32 at magnitude a.
RECURSIVE UlpAbove(_, _)
UlpAbove(a, limit) == IF a < limit THEN 1 ELSE 2 * UlpAbove(a \div 2, limit)

\* An integer rounded to the nearest float of bitSize bits (ties to even).
\* Every integer of the model is below 2^53, so float64 holds it exactly.
RoundFloat(n, bitSize) ==
    IF bitSize = 64 THEN n
    ELSE LET ulp == UlpAbove(Abs(n), Pow2(24))
             q == Abs(n) \div ulp
             rem == Abs(n) % ulp
             up == (2 * rem > ulp) \/ (2 * rem = ulp /\ q % 2 = 1)
             a == (IF up THEN q + 1 ELSE q) * ulp
         IN IF n < 0 THEN -a ELSE a

\* strconv.ParseFloat: on the alphabet a token is a float iff it is NaN or
\* an optionally negated run of decimal digits.
ParseFloat(repr, bitSize) ==
    IF repr = <<"N", "a", "N">> THEN [err |-> FALSE, nan |-> TRUE, f |-> 0]
    ELSE IF IsDigits(repr)
    THEN [err |-> FALSE, nan |-> FALSE, f |-> RoundFloat(DecVal(repr), bitSize)]
    ELSE IF Len(repr) > 1 /\ repr[1] = "-" /\ IsDigits(Tail(repr))
    THEN [err |-> FALSE, nan |-> FALSE,
          f |-> RoundFloat(NegDecVal(Tail(repr)), bitSize)]
    ELSE [err |-> TRUE, nan |-> FALSE, f |-> 0]

\* strconv.ParseBool on the alphabet.
ParseBool(str) ==
    IF str \in {<<"1">>, <<"t">>} THEN [err |-> FALSE, b |-> TRUE]
    ELSE IF str \in {<<"0">>, <<"f">>} THEN [err |-> FALSE, b |-> FALSE]
    ELSE [err |-> TRUE, b |-> FALSE]

\* Whether the integer type of bitSize bits represents f.  The numbers of the
\* model are 32-bit, so the 32- and 64-bit types are bounded only at zero.
FitsInt(f, signed, bitSize) ==
    IF bitSize >= 32 THEN signed \/ f >= 0
    ELSE IF signed
         THEN -Pow2(bitSize - 1) <= f /\ f <= Pow2(bitSize - 1) - 1
         ELSE 0 <= f /\ f <= Pow2(bitSize) - 1

\* The Go conversion intN(f) / uintN(f) of a float64: implementation-defined
\* when the type cannot represent f.
ConvertInt(x, signed, bitSize) ==
    IF ~x.nan /\ FitsInt(x.f, signed, bitSize) THEN x.f ELSE implInt

\* The layouts of the three date/time formats.
dateFormat == <<"2", "0", "0", "6", "-", "0", "1", "-", "0", "2">>
timeFormat == dateFormat \o <<" ", "1", "5", ":", "0", "4", ":", "0", "5">>
dateTime64Format ==
    timeFormat \o <<".", "9", "9", "9", "9", "9", "9", "9", "9", "9">>

IsLeap(y) == (y % 4 = 0 /\ y % 100 # 0) \/ y % 400 = 0
DaysIn(y, m) ==
    IF m = 2 THEN (IF IsLeap(y) THEN 29 ELSE 28)
    ELSE IF m \in {4, 6, 9, 11} THEN 30 ELSE 31

Field(str, from, to) == SubSeq(str, from, to)

\* time.ParseInLocation for the three layouts: the date, then for the two
\* longer layouts the time of day, then optionally a fraction (a point or a
\* comma and digits).  Anything else is a parse error.
ParseInLocation(format, str, loc) ==
    LET n == Len(str)
        dateOk ==
            /\ n >= 10
            /\ IsDigits(Field(str, 1, 4)) /\ str[5] = "-"
            /\ IsDigits(Field(str, 6, 7)) /\ str[8] = "-"
            /\ IsDigits(Field(str, 9, 10))
            /\ DecVal(Field(str, 6, 7)) \in 1..12
            /\ DecVal(Field(str, 9, 10)) \in
                   1..DaysIn(DecVal(Field(str, 1, 4)), DecVal(Field(str, 6, 7)))
        timeOk ==
            /\ n >= 19
            /\ str[11] = " "
            /\ IsDigits(Field(str, 12, 13)) /\ str[14] = ":"
            /\ IsDigits(Field(str, 15, 16)) /\ str[17] = ":"
            /\ IsDigits(Field(str, 18, 19))
            /\ DecVal(Field(str, 12, 13)) < 24
            /\ DecVal(Field(str, 15, 16)) < 60
            /\ DecVal(Field(str, 18, 19)) < 60
        fracOk ==
            n = 19 \/ (n >= 21 /\ str[20] \in {".", ","}
                               /\ IsDigits(Field(str, 21, n)))
        ok == IF format = dateFormat THEN dateOk /\ n = 10
              ELSE dateOk /\ timeOk /\ fracOk
    IN
    IF ~ok THEN [err |-> TRUE, v |-> Nil]
    ELSE [err |-> FALSE,
          v |-> Value("time",
                  <<DecVal(Field(str, 1, 4)), DecVal(Field(str, 6, 7)),
                    DecVal(Field(str, 9, 10)),
                    IF n >= 19 THEN DecVal(Field(str, 12, 13)) ELSE 0,
                    IF n >= 19 THEN DecVal(Field(str, 15, 16)) ELSE 0,
                    IF n >= 19 THEN DecVal(Field(str, 18, 19)) ELSE 0,
                    IF n >= 21 THEN Field(str, 21, n) ELSE <<>>,
                    loc>>)]

\* time.Time{}: January 1, year 1, 00:00:00 UTC.
ZeroTime == Value("time", <<1, 1, 1, 0, 0, 0, <<>>, "UTC">>)

\* time.LoadLocation: the locations this model knows.
Locations == {"UTC", "Asia/Shanghai"}
LoadLocation(name) ==
    IF name \in Locations THEN [err |-> FALSE, loc |-> name]
    ELSE [err |-> TRUE, loc |-> "UTC"]

\* strconv.Atoi of a type argument's name.
Atoi(name) ==
    CASE name = "0" -> [err |-> FALSE, n |-> 0]
      [] name = "1" -> [err |-> FALSE, n |-> 1]
      [] name = "2" -> [err |-> FALSE, n |-> 2]
      [] name = "3" -> [err |-> FALSE, n |-> 3]
      [] name = "-1" -> [err |-> FALSE, n |-> -1]
      [] OTHER -> [err |-> TRUE, n |-> 0]

----------------------------------------------------------------------------
(* The DataParser implementations newDataParser builds.                    *)

stringParser(unquote, length) ==
    [kind |-> "string", unquote |-> unquote, length |-> length]
booleanParser(length) == [kind |-> "boolean", length |-> length]
dateTimeParser(unquote, format, location, precision) ==
    [kind |-> "dateTime", unquote |-> unquote, format |-> format,
     location |-> location, precision |-> precision]
tupleParser(args) == [kind |-> "tuple", args |-> args]
arrayParser(arg) == [kind |-> "array", arg |-> arg]
mapParser(key, value) == [kind |-> "map", key |-> key, value |-> value]
intParser(signed, bitSize) ==
    [kind |-> "int", signed |-> signed, bitSize |-> bitSize]
floatParser(bitSize) == [kind |-> "float", bitSize |-> bitSize]
nothingParser == [kind |-> "nothing"]
nullableParser(innerParser, innerType) ==
    [kind |-> "nullable", innerParser |-> innerParser, innerType |-> innerType]

\* DataParser.Nullable()
Nullable(p) == p.kind \in {"nothing", "nullable"}

\* Whether the Go type p.Type() is comparable (usable as a map key).
RECURSIVE Comparable(_)
Comparable(p) ==
    CASE p.kind \in {"array", "map"} -> FALSE
      [] p.kind = "tuple" -> \A i \in 1..Len(p.args) : Comparable(p.args[i])
      [] p.kind = "nullable" -> Comparable(p.innerParser)
      [] OTHER -> TRUE

\* Whether p.Type() panics: reflect.MapOf rejects a key type that is not
\* comparable.
RECURSIVE TypePanics(_)
TypePanics(p) ==
    CASE p.kind = "map" ->
             ~Comparable(p.key) \/ TypePanics(p.key) \/ TypePanics(p.value)
      [] p.kind = "array" -> TypePanics(p.arg)
      [] p.kind = "tuple" -> \E i \in 1..Len(p.args) : TypePanics(p.args[i])
      [] p.kind = "nullable" -> TypePanics(p.innerParser)
      [] OTHER -> FALSE

ZeroDate == <<"0", "0", "0", "0", "-", "0", "0", "-", "0", "0">>

RECURSIVE Parse(_, _)

stringParser_Parse(p, s) ==
    LET r == readString(s, p.length, p.unquote) IN
    IF r.err THEN Err(r.s, <<>>) ELSE Ok(Value("string", r.str), r.s, <<>>)

booleanParser_Parse(p, s) ==
    LET r == readUnquoted(s, p.length) IN
    IF r.err THEN Err(r.s, <<>>)
    ELSE LET b == ParseBool(r.str) IN
         IF b.err THEN Err(r.s, <<>>) ELSE Ok(Value("bool", b.b), r.s, <<>>)

dateTimeParser_Parse(p, s) ==
    LET i == Index(p.format, ".")
        l == IF p.precision > 0 /\ i >= 0 THEN i + p.precision + 1
             ELSE Len(p.format)
        r == readString(s, l, p.unquote)
    IN
    IF r.err THEN Err(r.s, <<>>)
    ELSE LET sp == Index(r.str, " ")
             test == IF sp >= 0 THEN SubSeq(r.str, 1, sp) ELSE r.str
         IN
         IF test = ZeroDate THEN Ok(ZeroTime, r.s, <<>>)
         ELSE LET v == ParseInLocation(p.format, r.str, p.location) IN
              IF v.err THEN Err(r.s, <<>>) ELSE Ok(v.v, r.s, <<>>)

intParser_Parse(p, s) ==
    LET r == readNumber(s)
        x == ParseFloat(r.str, 64)
    IN
    IF x.err THEN Err(r.s, <<>>)
    ELSE Ok(Value("int", <<p.signed, p.bitSize, ConvertInt(x, p.signed, p.bitSize)>>),
            r.s, <<>>)

floatParser_Parse(p, s) ==
    LET r == readNumber(s)
        x == ParseFloat(r.str, p.bitSize)
    IN
    IF x.err THEN Err(r.s, <<>>)
    ELSE Ok(Value("float", <<p.bitSize, x.nan, x.f>>), r.s, <<>>)

\* A zero-width decoder that returns the empty struct of its Type() instead
\* of nil.
nothingParser_Parse_EmptyStruct(p, s) == Ok(Value("struct", <<>>), s, <<>>)
nothingParser_Parse(p, s) == Ok(Nil, s, <<>>)

\* One entry of the log: where the call started, whether the NULL lookahead
\* was made and matched, where the inner parser was started (0: not started)
\* and where the call left the cursor.
NullableCall(p, start, peaked, matched, innerAt, end) ==
    [innerType |-> p.innerType, start |-> start, peaked |-> peaked,
     matched |-> matched, innerAt |-> innerAt, end |-> end]

nullableParser_Parse(p, s) ==
    IF p.innerType = "String"
    THEN LET r == Parse(p.innerParser, s) IN
         [r EXCEPT !.log =
             <<NullableCall(p, s.pos, FALSE, FALSE, s.pos, r.s.pos)>> \o @]
    ELSE LET n == peakNull(s) IN
         IF n.ok
         THEN Ok(Nil, n.s, <<NullableCall(p, s.pos, TRUE, TRUE, 0, n.s.pos)>>)
         ELSE LET r == Parse(p.innerParser, n.s) IN
              [r EXCEPT !.log =
                  <<NullableCall(p, s.pos, TRUE, FALSE, n.s.pos, r.s.pos)>> \o @]

\* The element loop of tupleParser.Parse, at element i.
RECURSIVE tupleLoop(_, _, _, _, _)
tupleLoop(p, i, s, fields, log) ==
    IF i > Len(p.args)
    THEN LET r == read(s) IN
         IF r.r # ")" THEN Err(r.s, log)
         ELSE Ok(Value("tuple", fields), r.s, log)
    ELSE LET c == read(s)
             s1 == IF i > 1 THEN c.s ELSE s
         IN
         IF i > 1 /\ c.r # "," THEN Err(c.s, log)
         ELSE LET e == Parse(p.args[i], s1) IN
              IF e.st # "ok" THEN [e EXCEPT !.log = log \o @]
              \* rStruct.Field(i).Set(reflect.ValueOf(nil)) panics
              ELSE IF IsNil(e.v) THEN Panic(e.s, log \o e.log)
              ELSE tupleLoop(p, i + 1, e.s, Append(fields, e.v), log \o e.log)

tupleParser_Parse(p, s) ==
    LET r == read(s) IN
    IF r.r # "(" THEN Err(r.s, <<>>)
    ELSE IF TypePanics(p) THEN Panic(r.s, <<>>)
    ELSE tupleLoop(p, 1, r.s, <<>>, <<>>)

\* The element loop of arrayParser.Parse.  seen holds the cursor states at
\* which an iteration has begun: beginning one there again repeats it for
\* ever.
RECURSIVE arrayLoop(_, _, _, _, _)
arrayLoop(p, s, slice, log, seen) ==
    LET c == read(s)
        s1 == UnreadRune(c.s)
    IN
    IF c.r = "]"
    THEN LET r == read(s1) IN
         IF r.r # "]" THEN Err(r.s, log)
         ELSE Ok(Value("slice", slice), r.s, log)
    ELSE IF s \in seen THEN Hang(s, log)
    ELSE LET e == Parse(p.arg, s1) IN
         IF e.st # "ok" THEN [e EXCEPT !.log = log \o @]
         \* reflect.TypeOf(p.arg) is never *nullParser: newDataParser builds none
         ELSE IF IsNil(e.v) THEN Err(e.s, log \o e.log)
         ELSE LET r == read(e.s)
                  s2 == IF r.r # "," THEN UnreadRune(r.s) ELSE r.s
              IN arrayLoop(p, s2, Append(slice, e.v), log \o e.log,
                           seen \cup {s})

arrayParser_Parse(p, s) ==
    LET r == read(s) IN
    IF r.r # "[" THEN Err(r.s, <<>>)
    ELSE IF TypePanics(p) THEN Panic(r.s, <<>>)
    ELSE arrayLoop(p, r.s, <<>>, <<>>, {})

\* m.SetMapIndex(reflect.ValueOf(k), reflect.ValueOf(v)) on a map held as a
\* set of <<key, value>> pairs: a nil v deletes the key.
SetMapIndex(m, k, v) ==
    {e \in m : e[1] # k} \cup (IF IsNil(v) THEN {} ELSE {<<k, v>>})

\* The pair loop of mapParser.Parse.
RECURSIVE mapLoop(_, _, _, _, _)
mapLoop(p, s, m, log, seen) ==
    LET c == read(s)
        s1 == UnreadRune(c.s)
    IN
    IF c.r = "}"
    THEN LET r == read(s1) IN
         IF r.r # "}" THEN Err(r.s, log)
         ELSE Ok(Value("map", m), r.s, log)
    ELSE IF s \in seen THEN Hang(s, log)
    ELSE LET k == Parse(p.key, s1) IN
         IF k.st # "ok" THEN [k EXCEPT !.log = log \o @]
         ELSE LET r == read(k.s) IN
              IF r.r # ":" THEN Err(r.s, log \o k.log)
              ELSE LET v == Parse(p.value, r.s) IN
                   IF v.st # "ok" THEN [v EXCEPT !.log = log \o k.log \o @]
                   \* reflect.ValueOf(nil) is no key: SetMapIndex panics
                   ELSE IF IsNil(k.v) THEN Panic(v.s, log \o k.log \o v.log)
                   ELSE LET q == read(v.s)
                            s2 == IF q.r # "," THEN UnreadRune(q.s) ELSE q.s
                        IN mapLoop(p, s2, SetMapIndex(m, k.v, v.v),
                                   log \o k.log \o v.log, seen \cup {s})

mapParser_Parse(p, s) ==
    LET r == read(s) IN
    IF r.r # "{" THEN Err(r.s, <<>>)
    ELSE IF TypePanics(p) THEN Panic(r.s, <<>>)
    ELSE mapLoop(p, r.s, {}, <<>>, {})

\* DataParser.Parse, dispatched on the implementation.
Parse(p, s) ==
    CASE p.kind = "string" -> stringParser_Parse(p, s)
      [] p.kind = "boolean" -> booleanParser_Parse(p, s)
      [] p.kind = "dateTime" -> dateTimeParser_Parse(p, s)
      [] p.kind = "tuple" -> tupleParser_Parse(p, s)
      [] p.kind = "array" -> arrayParser_Parse(p, s)
      [] p.kind = "map" -> mapParser_Parse(p, s)
      [] p.kind = "int" -> intParser_Parse(p, s)
      [] p.kind = "float" -> floatParser_Parse(p, s)
      [] p.kind = "nothing" -> nothingParser_Parse(p, s)
      [] p.kind = "nullable" -> nullableParser_Parse(p, s)

----------------------------------------------------------------------------
(* Type descriptors and the decoder compiler.                              *)

\* *TypeDesc: a name, the argument descriptors and the nullable flag.
TypeDesc(name, args) == [Name |-> name, Nullable |-> FALSE, Args |-> args]

\* *DataParserOptions; NoOpt is the nil pointer, NoLocation a nil Location.
NoLocation == "<nil>"
NoOpt == [nil |-> TRUE, Location |-> NoLocation, UseDBLocation |-> FALSE]
DataParserOptions(location, useDB) ==
    [nil |-> FALSE, Location |-> location, UseDBLocation |-> useDB]

NoParser == [kind |-> "none"]

\* What a newDataParser call leaves: st is "ok" (a parser), "err" (an error)
\* or "panic"; t is the descriptor as the call leaves it.
Built(p, t) == [st |-> "ok", p |-> p, t |-> t]
BuildErr(t) == [st |-> "err", p |-> NoParser, t |-> t]
BuildPanic(t) == [st |-> "panic", p |-> NoParser, t |-> t]

\* The location of a Date or Timestamp parser.
DefaultLocation(opt) ==
    IF ~opt.nil /\ opt.Location # NoLocation THEN opt.Location ELSE "UTC"

\* The location of a DateTime/DateTime64 parser whose timezone argument, if
\* any, is args[tz].
ArgLocation(args, tz, opt) ==
    IF (opt.nil \/ opt.Location = NoLocation \/ opt.UseDBLocation)
       /\ Len(args) >= tz
    THEN LoadLocation(args[tz].Name)
    ELSE [err |-> FALSE, loc |-> DefaultLocation(opt)]

StringNames ==
    {"Decimal", "String", "Enum8", "Bitmap", "Enum16", "UUID", "IPv4", "IPv6",
     "Variant", "VariantObject"}

\* The inner type name the Nullable case tags its wrapper with.
NullableInnerType_TagOuter(t) == t.Name
NullableInnerType(t) == t.Args[1].Name

RECURSIVE newDataParser(_, _, _)

\* The loop of the Tuple case over t.Args, at argument i.
RECURSIVE tupleArgs(_, _, _, _)
tupleArgs(args, i, opt, subParsers) ==
    IF i > Len(args) THEN [st |-> "ok", ps |-> subParsers, args |-> args]
    ELSE LET r == newDataParser(args[i], TRUE, opt)
             args1 == [args EXCEPT ![i] = r.t]
         IN IF r.st # "ok" THEN [st |-> r.st, ps |-> subParsers, args |-> args1]
            ELSE tupleArgs(args1, i + 1, opt, Append(subParsers, r.p))

newDataParser(t, unquote, opt) ==
    IF t.Nullable
    THEN LET r == newDataParser([t EXCEPT !.Nullable = FALSE], unquote, opt) IN
         IF r.st # "ok" THEN r
         ELSE Built(nullableParser(r.p, t.Name), r.t)
    ELSE
    CASE t.Name = "Nothing" -> Built(nothingParser, t)
      [] t.Name = "Nullable" ->
           IF Len(t.Args) = 0 THEN BuildPanic(t)
           ELSE LET r == newDataParser(t.Args[1], unquote, opt)
                    t1 == [t EXCEPT !.Args[1] = r.t]
                IN IF r.st # "ok" THEN [r EXCEPT !.t = t1]
                   ELSE Built(nullableParser(r.p, NullableInnerType(t)), t1)
      [] t.Name = "NULL" ->
           Built(nullableParser(stringParser(unquote, 0), "String"), t)
      [] t.Name = "Date" ->
           Built(dateTimeParser(unquote, dateFormat, DefaultLocation(opt), 0), t)
      [] t.Name = "DateTime" ->
           LET l == ArgLocation(t.Args, 1, opt) IN
           IF l.err THEN BuildErr(t)
           ELSE Built(dateTimeParser(unquote, timeFormat, l.loc, 0), t)
      [] t.Name = "DateTime64" ->
           IF Len(t.Args) < 1 THEN BuildErr(t)
           ELSE LET l == ArgLocation(t.Args, 2, opt)
                    precision == Atoi(t.Args[1].Name)
                IN IF l.err \/ precision.err \/ precision.n < 0 THEN BuildErr(t)
                   ELSE Built(dateTimeParser(unquote, dateTime64Format, l.loc,
                                             precision.n), t)
      [] t.Name = "Timestamp" ->
           Built(dateTimeParser(unquote, dateTime64Format,
                                DefaultLocation(opt), 1), t)
      [] t.Name = "Boolean" -> Built(booleanParser(0), t)
      [] t.Name = "UInt8" -> Built(intParser(FALSE, 8), t)
      [] t.Name = "UInt16" -> Built(intParser(FALSE, 16), t)
      [] t.Name = "UInt32" -> Built(intParser(FALSE, 32), t)
      [] t.Name = "UInt64" -> Built(intParser(FALSE, 64), t)
      [] t.Name = "Int8" -> Built(intParser(TRUE, 8), t)
      [] t.Name = "Int16" -> Built(intParser(TRUE, 16), t)
      [] t.Name = "Int32" -> Built(intParser(TRUE, 32), t)
      [] t.Name = "Int64" -> Built(intParser(TRUE, 64), t)
      [] t.Name = "Float32" -> Built(floatParser(32), t)
      [] t.Name = "Float64" -> Built(floatParser(64), t)
      [] t.Name \in StringNames -> Built(stringParser(unquote, 0), t)
      [] t.Name = "FixedString" ->
           IF Len(t.Args) # 1 THEN BuildErr(t)
           ELSE LET length == Atoi(t.Args[1].Name) IN
                IF length.err THEN BuildErr(t)
                ELSE Built(stringParser(unquote, length.n), t)
      [] t.Name = "Array" ->
           IF Len(t.Args) # 1 THEN BuildErr(t)
           ELSE LET r == newDataParser(t.Args[1], TRUE, opt)
                    t1 == [t EXCEPT !.Args[1] = r.t]
                IN IF r.st # "ok" THEN [r EXCEPT !.t = t1]
                   ELSE Built(arrayParser(r.p), t1)
      [] t.Name = "Tuple" ->
           IF Len(t.Args) < 1 THEN BuildErr(t)
           ELSE LET r == tupleArgs(t.Args, 1, opt, <<>>)
                    t1 == [t EXCEPT !.Args = r.args]
                IN IF r.st # "ok" THEN [st |-> r.st, p |-> NoParser, t |-> t1]
                   ELSE Built(tupleParser(r.ps), t1)
      [] t.Name = "Map" ->
           IF Len(t.Args) # 2 THEN BuildErr(t)
           ELSE LET k == newDataParser(t.Args[1], TRUE, opt)
                    t1 == [t EXCEPT !.Args[1] = k.t]
                IN IF k.st # "ok" THEN [k EXCEPT !.t = t1]
                   ELSE LET v == newDataParser(t.Args[2], TRUE, opt)
                            t2 == [t1 EXCEPT !.Args[2] = v.t]
                        IN IF v.st # "ok" THEN [v EXCEPT !.t = t2]
                           ELSE Built(mapParser(k.p, v.p), t2)
      [] OTHER -> BuildErr(t)

NewDataParser(t, opt) == newDataParser(t, FALSE, opt)

----------------------------------------------------------------------------
(* Bounds.                                                                 *)

MaxLit == 1       \* integer literals range over -MaxLit..MaxLit
MaxElems == 2     \* elements of an array or tuple text, pairs of a map text
MaxTail == 2      \* characters that follow a prefix of NULL in a text
MaxCompiles == 2  \* NewDataParser calls on the same descriptor

MaxInt32 == 2147483647
MinInt32 == -MaxInt32 - 1

----------------------------------------------------------------------------
(* Texts: the wire form of values.                                         *)

DigitChar(d) ==
    CASE d = 0 -> "0" [] d = 1 -> "1" [] d = 2 -> "2" [] d = 3 -> "3"
      [] d = 4 -> "4" [] d = 5 -> "5" [] d = 6 -> "6" [] d = 7 -> "7"
      [] d = 8 -> "8" [] d = 9 -> "9"

\* The decimal digits of -n, for n <= 0.
RECURSIVE NegDigits(_)
NegDigits(n) ==
    LET d == (10 - (n % 10)) % 10
        rest == (n + d) \div 10
    IN IF rest = 0 THEN <<DigitChar(d)>>
       ELSE NegDigits(rest) \o <<DigitChar(d)>>

\* The decimal literal of an integer, as the server writes it.
Itoa(n) == IF n < 0 THEN <<"-">> \o NegDigits(n) ELSE NegDigits(-n)

\* The elements of composite texts: an integer literal, the bare word NULL,
\* a quoted string and a one-element array.
IntItem(n) == [lit |-> "int", n |-> n, str |-> <<>>]
NullItem == [lit |-> "null", n |-> 0, str |-> <<>>]
StrItem(str) == [lit |-> "str", n |-> 0, str |-> str]
ArrItem(n) == [lit |-> "arr", n |-> n, str |-> <<>>]

RenderItem(it) ==
    CASE it.lit = "int" -> Itoa(it.n)
      [] it.lit = "null" -> <<"N", "U", "L", "L">>
      [] it.lit = "str" -> <<"'">> \o it.str \o <<"'">>
      [] it.lit = "arr" -> <<"[">> \o Itoa(it.n) \o <<"]">>

\* Literals have at most a few digits, but for the two extremes of int32.
IntVals == -MaxLit..MaxLit

Items ==
    {IntItem(n) : n \in IntVals}
        \cup {NullItem, StrItem(<<"a">>), ArrItem(1)}

\* A map text's pairs.
KeyItems == {StrItem(<<"a">>), StrItem(<<"b">>), IntItem(1)}
ValItems == {IntItem(1), IntItem(2), NullItem}
Pairs == KeyItems \X ValItems

SeqsUpTo(S, n) == UNION {[1..k -> S] : k \in 0..n}

\* How a composite text departs from the grammar: not at all, a comma
\* before the closing bracket, no commas between the elements, no closing
\* bracket.
Variants == {"wf", "trail", "nosep", "open"}

OpenBracket(shape) ==
    CASE shape = "array" -> "[" [] shape = "tuple" -> "(" [] shape = "map" -> "{"
CloseBracket(shape) ==
    CASE shape = "array" -> "]" [] shape = "tuple" -> ")" [] shape = "map" -> "}"

RenderElem(shape, e) ==
    IF shape = "map" THEN RenderItem(e[1]) \o <<":">> \o RenderItem(e[2])
    ELSE RenderItem(e)

RECURSIVE Join(_, _, _)
Join(shape, items, sep) ==
    IF items = <<>> THEN <<>>
    ELSE IF Len(items) = 1 THEN RenderElem(shape, items[1])
    ELSE RenderElem(shape, items[1]) \o sep \o Join(shape, Tail(items), sep)

Render(shape, items, variant) ==
    <<OpenBracket(shape)>>
        \o Join(shape, items, IF variant = "nosep" THEN <<>> ELSE <<",">>)
        \o (IF variant = "trail" THEN <<",">> ELSE <<>>)
        \o (IF variant = "open" THEN <<>> ELSE <<CloseBracket(shape)>>)

\* An input of Parse: a text, and for a composite text what it was rendered
\* from.
Composite(shape, items, variant) ==
    [shape |-> shape, items |-> items, variant |-> variant,
     text |-> Render(shape, items, variant)]
Plain(text) == [shape |-> "text", items |-> <<>>, variant |-> "wf", text |-> text]

ExtremeInputs ==
    {Composite("array", items, "wf") :
        items \in { <<IntItem(MaxInt32)>>, <<IntItem(MinInt32)>>,
                    <<IntItem(MinInt32), IntItem(0), IntItem(MaxInt32)>> }}

CompositeInputs(shape) ==
    {Composite(shape, items, v) :
        items \in SeqsUpTo(IF shape = "map" THEN Pairs ELSE Items, MaxElems),
        v \in Variants}
        \cup (IF shape = "array" THEN ExtremeInputs ELSE {})

\* A prefix of NULL and what follows it.
TailChars == {",", "1", "a", "N"}
NullPrefixTexts ==
    {SubSeq(<<"N", "U", "L", "L">>, 1, k) \o tail :
        k \in 0..4, tail \in SeqsUpTo(TailChars, MaxTail)}

Date0 == ZeroDate
Time0 == <<" ", "0", "0", ":", "0", "0", ":", "0", "0">>
Date1 == <<"2", "0", "0", "1", "-", "0", "2", "-", "0", "3">>
Time1 == <<" ", "0", "4", ":", "0", "5", ":", "0", "6">>

SpecialTexts ==
    { <<"\\", "N">>, <<"'", "\\", "N", "'">>, <<"'", "N", "'">>, <<"\\">>,
      <<"a", "\\">>, <<"a", "b">>, <<"t">>, <<"f">>, <<"0">>, <<"-", "1">>,
      <<"1", "2">>, <<"'", "a", "'">>, <<"'", "a", "b", "'">>,
      <<"a", "'", "b">>, <<"'", "a">>,
      Date0, Date0 \o Time0, Date0 \o Time0 \o <<",", "0">>,
      Date0 \o Time0 \o <<",", "0", "0", "0">>,
      Date0 \o Time0 \o <<",", "0", "0", "0", "0", "0", "0", "0", "0", "0">>,
      Date1, Date1 \o Time1, Date1 \o Time1 \o <<",", "7">>,
      Date1 \o Time1 \o <<",", "7", "8", "9">>,
      Date1 \o Time1 \o <<",", "7", "8", "9", "0", "1", "2", "3", "4", "5">>,
      <<"2", "0", "0", "1", "-", "0", "2", "-", "3", "0">>,
      <<"'">> \o Date0 \o <<"'">>,
      Render("array", <<IntItem(1)>>, "wf"), Render("array", <<>>, "wf"),
      Render("tuple", <<IntItem(1), StrItem(<<"a">>)>>, "wf"),
      Render("map", <<>>, "wf"),
      Render("map", <<<<StrItem(<<"a">>), IntItem(1)>>>>, "wf") }

CommonInputs == {Plain(text) : text \in NullPrefixTexts \cup SpecialTexts}

----------------------------------------------------------------------------
(* The descriptors handed to NewDataParser.                                *)

Prim(name) == TypeDesc(name, <<>>)
Flagged(d) == [d EXCEPT !.Nullable = TRUE]
NullableOf(d) == TypeDesc("Nullable", <<d>>)
ArrayOf(d) == TypeDesc("Array", <<d>>)
TupleOf(ds) == TypeDesc("Tuple", ds)
MapOf(k, v) == TypeDesc("Map", <<k, v>>)

PrimTypes ==
    {Prim(n) : n \in
        {"String", "Variant", "Nothing", "NULL", "Date", "DateTime",
         "Timestamp", "Boolean", "UInt8", "UInt64", "Int8", "Int32", "Int64",
         "Float32", "Float64"}}

ParamTypes ==
    { TypeDesc("DateTime", <<Prim("Asia/Shanghai")>>),
      TypeDesc("DateTime64", <<Prim("0")>>),
      TypeDesc("DateTime64", <<Prim("1")>>),
      TypeDesc("DateTime64", <<Prim("3"), Prim("Asia/Shanghai")>>),
      TypeDesc("FixedString", <<Prim("2")>>) }

CompositeTypes ==
    { ArrayOf(Prim("Int32")), ArrayOf(Prim("String")), ArrayOf(Prim("Boolean")),
      ArrayOf(Prim("Nothing")), ArrayOf(ArrayOf(Prim("Int32"))),
      ArrayOf(NullableOf(Prim("Int32"))), ArrayOf(Flagged(Prim("Int32"))),
      TupleOf(<<Prim("Int32"), Prim("String")>>),
      TupleOf(<<Prim("Int32"), Prim("Int32")>>),
      TupleOf(<<Prim("Nothing")>>),
      TupleOf(<<NullableOf(Prim("Int32")), Prim("Int32")>>),
      TupleOf(<<Flagged(Prim("Int32")), Flagged(Prim("String"))>>),
      MapOf(Prim("String"), Prim("Int32")), MapOf(Prim("Int32"), Prim("Int32")),
      MapOf(Prim("Int32"), Flagged(Prim("Int32"))),
      MapOf(Prim("Nothing"), Prim("Int32")),
      MapOf(ArrayOf(Prim("Int32")), Prim("Int32")) }

\* The types the compiler supports.
SupportedTypes == PrimTypes \cup ParamTypes \cup CompositeTypes

\* Descriptors the compiler rejects.
BadTypes ==
    { Prim("Foo"), Prim("Array"), Prim("Tuple"), Prim("Map"), Prim("Nullable"),
      Prim("DateTime64"), TypeDesc("DateTime64", <<Prim("-1")>>),
      TypeDesc("DateTime", <<Prim("Mars/Olympus")>>), Prim("FixedString"),
      ArrayOf(Prim("Foo")), ArrayOf(Flagged(Prim("Foo"))),
      TupleOf(<<Flagged(Prim("Int32")), Prim("Foo")>>),
      MapOf(Flagged(Prim("Int32")), Prim("Foo")) }

\* The types whose two nullable forms are compiled too.
Wrapped ==
    PrimTypes \cup ParamTypes \cup BadTypes
        \cup { ArrayOf(Prim("Int32")),
               TupleOf(<<Prim("Int32"), Prim("String")>>),
               MapOf(Prim("String"), Prim("Int32")) }

Descs ==
    SupportedTypes \cup BadTypes
        \cup {Flagged(d) : d \in Wrapped}
        \cup {NullableOf(d) : d \in Wrapped}

Opts ==
    { NoOpt, DataParserOptions("Asia/Shanghai", FALSE),
      DataParserOptions("Asia/Shanghai", TRUE) }

\* The name of the type a descriptor denotes, under its nullability.
Root(d) ==
    IF d.Name = "Nullable" /\ Len(d.Args) > 0 THEN d.Args[1].Name ELSE d.Name

\* The texts a column of type d is decoded from: the common ones and, for a
\* composite type, the texts of its shape.
InputsFor(d) ==
    CommonInputs \cup
        (CASE Root(d) = "Array" -> CompositeInputs("array")
           [] Root(d) = "Tuple" -> CompositeInputs("tuple")
           [] Root(d) = "Map" -> CompositeInputs("map")
           [] OTHER -> {})

----------------------------------------------------------------------------
(* The state machine.                                                      *)

NoInput == [shape |-> "none", items |-> <<>>, variant |-> "wf", text |-> <<>>]
NoOut ==
    [called |-> FALSE, p |-> NoParser, in |-> NoInput,
     r |-> Err(NewReader(<<>>), <<>>)]

\* A conversion a type cannot represent yields some value of the type.
ImplInts == {0, 1}

Init ==
    /\ given \in Descs
    /\ desc = given
    /\ parsers = <<>>
    /\ out = NoOut
    /\ implInt \in ImplInts

\* The caller compiles its descriptor: NewDataParser(desc, opt).
Compile ==
    /\ ~out.called
    /\ Len(parsers) < MaxCompiles
    /\ \E opt \in Opts :
         LET r == NewDataParser(desc, opt) IN
         /\ parsers' = Append(parsers, [st |-> r.st, p |-> r.p])
         /\ desc' = r.t
    /\ UNCHANGED <<given, out, implInt>>

\* The caller decodes a cell with the parser it compiled last, on a cursor
\* of its own.
ParseCall ==
    /\ ~out.called
    /\ Len(parsers) > 0
    /\ parsers[Len(parsers)].st = "ok"
    /\ \E in \in InputsFor(given) :
         out' = [called |-> TRUE, p |-> parsers[Len(parsers)].p, in |-> in,
                 r |-> Parse(parsers[Len(parsers)].p, NewReader(in.text))]
    /\ UNCHANGED <<given, desc, parsers, implInt>>

Next == Compile \/ ParseCall

Spec == Init /\ [][Next]_vars

----------------------------------------------------------------------------
(* Properties.                                                             *)

Text == out.in.text
Items_ == out.in.items
WellFormed(shape) ==
    out.called /\ out.in.shape = shape /\ out.in.variant = "wf"

Int32Value(n) == Value("int", <<TRUE, 32, n>>)
StringValue(str) == Value("string", str)

\* The value an element of a composite text denotes.
ItemValue(it) ==
    IF it.lit = "int" THEN Int32Value(it.n) ELSE StringValue(it.str)

\* Equality of decoded values, kind first.
SameValue(a, b) == a.k = b.k /\ a.v = b.v

Int32Type == Prim("Int32")
StringType == Prim("String")

\* C1: with the decoder of Tuple(Int32,String), a well-formed text
\* ( int , 'string' ) decodes to the two-field record of the integer and the
\* string.
C1_TupleOfIntAndString ==
    ( /\ WellFormed("tuple")
      /\ given = TupleOf(<<Int32Type, StringType>>)
      /\ Len(Items_) = 2
      /\ Items_[1].lit = "int" /\ Items_[2].lit = "str" )
        => /\ out.r.st = "ok"
           /\ SameValue(out.r.v,
                        Value("tuple", <<ItemValue(Items_[1]), ItemValue(Items_[2])>>))

\* The mapping a sequence of pairs denotes: the last pair of a key wins.
PairsMapping(pairs) ==
    {<<ItemValue(pairs[i][1]), ItemValue(pairs[i][2])>> : i \in
        {i \in 1..Len(pairs) :
            \A j \in (i + 1)..Len(pairs) : pairs[j][1] # pairs[i][1]}}

\* C2: with the decoder of Map(String,Int32), a well-formed text
\* { 'k1' : v1 , ... } decodes to the mapping of exactly those entries, and {}
\* to the empty mapping.
C2_MapOfStringToInt ==
    ( /\ WellFormed("map")
      /\ given = MapOf(StringType, Int32Type)
      /\ \A i \in 1..Len(Items_) :
            Items_[i][1].lit = "str" /\ Items_[i][2].lit = "int" )
        => /\ out.r.st = "ok"
           /\ SameValue(out.r.v, Value("map", PairsMapping(Items_)))

\* C3: with the decoder of Array(Int32), the text [ l1 , ... , ln ] of
\* integer literals decodes to exactly the sequence of their values, in
\* order and of the same length ([] to the empty sequence), and the whole
\* text is consumed.
C3_ArrayOfInt ==
    ( /\ WellFormed("array")
      /\ given = ArrayOf(Int32Type)
      /\ \A i \in 1..Len(Items_) : Items_[i].lit = "int" )
        => /\ out.r.st = "ok"
           /\ out.r.v.k = "slice"
           /\ Len(out.r.v.v) = Len(Items_)
           /\ \A i \in 1..Len(Items_) : out.r.v.v[i] = Int32Value(Items_[i].n)
           /\ out.r.s.pos = Len(Text) + 1

\* C3 happens: a text of several distinct literals, one of them negative,
\* and the text of the two extremes of int32 were decoded.
C3_Witness ==
    /\ WellFormed("array")
    /\ given = ArrayOf(Int32Type)
    /\ out.r.st = "ok"
    /\ \/ /\ Len(Items_) = MaxElems
          /\ Items_[1].lit = "int" /\ Items_[1].n < 0
          /\ Items_[MaxElems].lit = "int" /\ Items_[MaxElems].n > 0
       \/ /\ Len(Items_) > 2
          /\ Items_[1] = IntItem(MinInt32)

\* The decoder in use was compiled from a descriptor of a nullable type.
NullableDecoder == out.called /\ out.p.kind = "nullable"

EscapedNull == <<"\\", "N">>
BareNull == <<"N", "U", "L", "L">>

\* C4: every decoder compiled for a nullable descriptor, whatever its inner
\* type, decodes the two characters \N to null.
C4_EscapedNullIsNull ==
    (NullableDecoder /\ Text = EscapedNull)
        => out.r.st = "ok" /\ IsNil(out.r.v)

\* C5: the decoders of Date, DateTime, DateTime64(p) and Timestamp decode
\* the literal 0000-00-00 to the zero-value timestamp, never to an error.
C5_ZeroDate ==
    (out.called /\ out.p.kind = "dateTime" /\ Text = ZeroDate)
        => out.r.st = "ok" /\ SameValue(out.r.v, ZeroTime)

\* C6: NewDataParser leaves the descriptor it is given as it was, whether it
\* returns a decoder or a build error, so the decoders of two compilations of
\* one descriptor report the same nullability.
C6_DescriptorNotMutated ==
    /\ desc = given
    /\ \A i, j \in 1..Len(parsers) :
          (parsers[i].st = "ok" /\ parsers[j].st = "ok")
              => Nullable(parsers[i].p) = Nullable(parsers[j].p)

\* What a decoder does with a text: the outcome, the value and the cursor.
SameOutcome(a, b) == a.st = b.st /\ SameValue(a.v, b.v) /\ a.s = b.s

\* The decoder of descriptor d under opt agrees with the Parse call made.
AgreesWithOut(d, opt) ==
    LET b == NewDataParser(d, opt) IN
    /\ b.st = "ok"
    /\ Nullable(b.p) /\ Nullable(out.p)
    /\ SameOutcome(Parse(b.p, NewReader(Text)), out.r)

\* C7: for every supported type T, the decoder compiled from Nullable(T) and
\* the decoder compiled from T with the nullable flag set give, on every
\* text, the same value or both an error, leave the cursor at the same
\* position, and both report themselves nullable.
C7_NullableFormsAgree ==
    \A T \in SupportedTypes :
        /\ (out.called /\ given = NullableOf(T))
              => \A opt \in Opts :
                    NewDataParser(given, opt).p = out.p
                        => AgreesWithOut(Flagged(T), opt)
        /\ (out.called /\ given = Flagged(T) /\ Len(parsers) = 1)
              => \A opt \in Opts :
                    NewDataParser(given, opt).p = out.p
                        => AgreesWithOut(NullableOf(T), opt)

\* C7 happens: the decoder of Nullable(String) was handed the word NULL and
\* returned it as a string, where a NULL lookahead would have returned null.
C7_Witness ==
    /\ out.called
    /\ given = NullableOf(StringType)
    /\ Text = BareNull
    /\ out.r.st = "ok"
    /\ SameValue(out.r.v, StringValue(BareNull))

\* C8: an Array or Map text in which two consecutive elements are not
\* separated by a comma, or in which a comma directly precedes the closing
\* bracket, is rejected with a decode error.
C8_StructuralMismatchRejected ==
    ( /\ out.called
      /\ \/ out.p.kind = "array" /\ out.in.shape = "array"
         \/ out.p.kind = "map" /\ out.in.shape = "map"
      /\ \/ out.in.variant = "trail"
         \/ out.in.variant = "nosep" /\ Len(Items_) >= 2 )
        => out.r.st = "err"

\* The calls of the nullability wrapper made during the Parse call, for an
\* inner type other than String.
WrapperCalls ==
    {out.r.log[i] : i \in
        {i \in 1..Len(out.r.log) : out.r.log[i].innerType # "String"}}

\* The cursor stands at the word NULL, followed by the end of the text or by
\* a structural delimiter.
AtNull(pos) ==
    /\ pos + 3 <= Len(Text)
    /\ SubSeq(Text, pos, pos + 3) = BareNull
    /\ (pos + 4 > Len(Text) \/ Text[pos + 4] \in {",", "]", ")"})

\* C9: a nullability wrapper of a non-String inner type, called with the
\* cursor at NULL, returns null without starting the inner decoder and
\* consumes exactly the four characters, also when a delimiter follows.
C9_NullLiteral ==
    out.called =>
        \A c \in WrapperCalls :
            AtNull(c.start)
                => c.matched /\ c.innerAt = 0 /\ c.end = c.start + 4

\* C10: when the NULL lookahead fails, the inner decoder is started at the
\* position the cursor had before the lookahead.
C10_LookaheadRewinds ==
    out.called =>
        \A c \in WrapperCalls :
            (c.peaked /\ ~c.matched) => c.innerAt = c.start

\* The cursor at which an array decoder begins its first element: the
\* opening bracket is read, and the next character looked at and put back.
FirstElemCursor == UnreadRune(read(read(NewReader(Text)).s).s)

\* What the element decoder of the array decoder returns for that element.
FirstElem == Parse(out.p.arg, FirstElemCursor)

\* The array decoder was called on a text whose first element the element
\* decoder decodes to null, and a comma or closing bracket follows it.
NullFirstElem ==
    /\ out.called
    /\ out.p.kind = "array"
    /\ ~TypePanics(out.p)
    /\ Len(Text) >= 2
    /\ Text[1] = "["
    /\ Text[2] # "]"
    /\ FirstElem.st = "ok"
    /\ IsNil(FirstElem.v)
    /\ read(FirstElem.s).r \in {",", "]"}

\* C11: an Array decoder whose element decoder is a nullability wrapper or
\* the Nothing decoder accepts a null element: the decode does not end in a
\* decode error at the element.
C11_NullElementAccepted ==
    ( /\ NullFirstElem
      /\ out.p.arg.kind \in {"nullable", "nothing"} )
        => ~(out.r.st = "err" /\ out.r.s = FirstElem.s)

\* The structural delimiters, and the position of the first one in the text
\* (one past the end of the text when it has none).
Delimiters == {",", "]", ")"}
FirstDelimiter ==
    LET ds == {i \in 1..Len(Text) : Text[i] \in Delimiters} IN
    IF ds = {} THEN Len(Text) + 1
    ELSE CHOOSE i \in ds : \A j \in ds : i <= j

\* The token of the text: what precedes its first delimiter.
Token == SubSeq(Text, 1, FirstDelimiter - 1)

BoolValue(b) == Value("bool", b)
BoolItems == {IntItem(0), IntItem(1)}
BoolItemValue(it) == BoolValue(it.n = 1)

\* C12: the Boolean decoder without a fixed length decodes the boolean
\* literal that precedes the first delimiter of the text and leaves the
\* cursor at that delimiter; so Array(Boolean) decodes a bracketed list of
\* boolean literals to the sequence of their values.
C12_BooleanStopsAtDelimiter ==
    /\ ( /\ out.called
         /\ out.p.kind = "boolean"
         /\ out.p.length = 0
         /\ ~ParseBool(Token).err )
           => /\ out.r.st = "ok"
              /\ SameValue(out.r.v, BoolValue(ParseBool(Token).b))
              /\ out.r.s.pos = FirstDelimiter
    /\ ( /\ WellFormed("array")
         /\ out.p.kind = "array"
         /\ out.p.arg.kind = "boolean"
         /\ \A i \in 1..Len(Items_) : Items_[i] \in BoolItems )
           => /\ out.r.st = "ok"
              /\ out.r.v.k = "slice"
              /\ Len(out.r.v.v) = Len(Items_)
              /\ \A i \in 1..Len(Items_) :
                    SameValue(out.r.v.v[i], BoolItemValue(Items_[i]))

\* C13: a Parse call returns a value or a decode error; it does not end in
\* a runtime panic, also when a Tuple or Map sub-decoder returns null.
C13_NoPanic == out.called => out.r.st # "panic"

\* C14: a Parse call terminates: no element loop of an Array or Map decoder
\* begins an iteration at a cursor state at which it began one before.
C14_LoopsTerminate == out.called => out.r.st # "hang"

\* An Array(Nothing) decoder was called on a text that holds elements and
\* ends before the closing bracket, and returned a decode error.
C14_Witness ==
    /\ out.called
    /\ out.p.kind = "array"
    /\ out.p.arg.kind = "nothing"
    /\ out.in.shape = "array"
    /\ out.in.variant = "open"
    /\ Len(Items_) >= 1
    /\ out.r.st = "err"

====
